---- MODULE Spec2Model ----
(***************************************************************************)
(* bank-functions.js: the five time-value-of-money functions FV, PV, PMT,  *)
(* IPMT and PPMT.  The functions are pure: a behaviour is one call, from   *)
(* its arguments (drawn by Init) to its returned value.                    *)
(*                                                                         *)
(* JavaScript numbers are modelled by exact extended rationals <<n, d>>:   *)
(* d > 0 and gcd(n, d) = 1 for a finite number, <<1, 0>> and <<-1, 0>> for *)
(* +Infinity and -Infinity, <<0, 0>> for NaN.  The value undefined (an     *)
(* omitted argument) is <<0, -1>>.  Rounding is not modelled; the division *)
(* by zero, the infinities and NaN are.  Every zero that reaches a divisor *)
(* in the source (rate + 1, term - 1, 1 - 1/term, Math.pow of a zero base, *)
(* a zero number of periods) is +0, so x / 0 has the sign of x.            *)
(***************************************************************************)
EXTENDS Integers, Sequences, FiniteSets

VARIABLES fn, args, result, pows, pc

vars == <<fn, args, result, pows, pc>>

-----------------------------------------------------------------------------
(* Bounds of the explored inputs. *)

\* rates are the multiples of 1/2 from -RateSteps/2 to RateSteps/2
RateSteps == 4
\* amounts (payment, present value, future value) are the integers -MaxAmount..MaxAmount
MaxAmount == 2
\* periods is in 0..MaxPeriods and period in 1..MaxPeriods
MaxPeriods == 3

-----------------------------------------------------------------------------
(* JavaScript number semantics. *)

NaN == <<0, 0>>
PosInf == <<1, 0>>
NegInf == <<-1, 0>>
Undefined == <<0, -1>>
Zero == <<0, 1>>
One == <<1, 1>>
Two == <<2, 1>>

Abs(n) == IF n < 0 THEN -n ELSE n

Sgn(n) == IF n < 0 THEN -1 ELSE IF n > 0 THEN 1 ELSE 0

RECURSIVE Gcd(_, _)
Gcd(a, b) == IF b = 0 THEN a ELSE Gcd(b, a % b)

\* the canonical form of n/d
Norm(n, d) ==
    IF d = 0 THEN <<Sgn(n), 0>>
    ELSE LET g == Gcd(Abs(n), Abs(d))
             s == IF d < 0 THEN -1 ELSE 1
         IN <<(s * n) \div g, (s * d) \div g>>

\* an integer as a number
Q(k) == <<k, 1>>

\* ToNumber: undefined converts to NaN
ToNumber(x) == IF x = Undefined THEN NaN ELSE x

\* a + b
QAdd(x, y) ==
    LET a == ToNumber(x)
        b == ToNumber(y)
    IN IF a = NaN \/ b = NaN THEN NaN
       ELSE IF a[2] = 0 /\ b[2] = 0 THEN (IF a = b THEN a ELSE NaN)
       ELSE IF a[2] = 0 THEN a
       ELSE IF b[2] = 0 THEN b
       ELSE LET g == Gcd(a[2], b[2])
            IN Norm(a[1] * (b[2] \div g) + b[1] * (a[2] \div g), a[2] * (b[2] \div g))

\* -a
QNeg(x) == LET a == ToNumber(x) IN <<-a[1], a[2]>>

\* a - b
QSub(x, y) == QAdd(x, QNeg(y))

\* a * b
QMul(x, y) ==
    LET a == ToNumber(x)
        b == ToNumber(y)
    IN Norm(a[1] * b[1], a[2] * b[2])

\* a / b
QDiv(x, y) ==
    LET a == ToNumber(x)
        b == ToNumber(y)
        s == IF b[1] < 0 THEN -1 ELSE 1
    IN Norm(s * a[1] * b[2], s * a[2] * b[1])

RECURSIVE PowNat(_, _)
PowNat(b, e) == IF e = 0 THEN One ELSE QMul(b, PowNat(b, e - 1))

\* Math.pow(b, e) for an integer e
MathPow(b, e) == IF e >= 0 THEN PowNat(b, e) ELSE QDiv(One, PowNat(b, -e))

\* x === y
StrictEq(x, y) == x # NaN /\ y # NaN /\ x = y

\* OrZero with a default of 1 taken only when the argument is omitted
OrZero_default1(x) == IF x = Undefined THEN One ELSE x

\* x || 0: undefined, NaN and 0 are falsy
OrZero(x) == IF x \in {Undefined, NaN, Zero} THEN Zero ELSE x

-----------------------------------------------------------------------------
(* Arbitrary-precision rationals.  PMT's documented scenario needs 1.01^36,   *)
(* whose exact numerator has 73 digits: such a call is evaluated by the same  *)
(* formula over rationals s * n / d with s the sign and n, d naturals held as *)
(* sequences of base-Limb digits, least significant first, 0 being <<>>.      *)
(* Only finite values arise there: every divisor of the scenario is not 0.    *)

Limb == 10000

RECURSIVE Big(_)
Big(n) == IF n = 0 THEN <<>> ELSE <<n % Limb>> \o Big(n \div Limb)

\* digit i of a (0 beyond its length)
Digit(a, i) == IF i <= Len(a) THEN a[i] ELSE 0

\* a without its leading zero digits
BTrim(a) ==
    LET nz == {i \in 1 .. Len(a) : a[i] # 0}
    IN IF nz = {} THEN <<>>
       ELSE SubSeq(a, 1, CHOOSE i \in nz : \A j \in nz : j <= i)

\* digits lo..hi of a + b + carry and the carry out, by halving the range
RECURSIVE BAddC(_, _, _, _, _)
BAddC(a, b, lo, hi, carry) ==
    IF lo > hi THEN <<<<>>, carry>>
    ELSE IF lo = hi
    THEN LET x == Digit(a, lo) + Digit(b, lo) + carry
         IN <<<<x % Limb>>, x \div Limb>>
    ELSE LET mid == (lo + hi) \div 2
             low == BAddC(a, b, lo, mid, carry)
             high == BAddC(a, b, mid + 1, hi, low[2])
         IN <<low[1] \o high[1], high[2]>>

BAdd(a, b) ==
    LET r == BAddC(a, b, 1, IF Len(a) > Len(b) THEN Len(a) ELSE Len(b), 0)
    IN IF r[2] = 0 THEN r[1] ELSE Append(r[1], r[2])

\* digits lo..hi of a - b - borrow and the borrow out
RECURSIVE BSubB(_, _, _, _, _)
BSubB(a, b, lo, hi, borrow) ==
    IF lo > hi THEN <<<<>>, borrow>>
    ELSE IF lo = hi
    THEN LET x == Digit(a, lo) - Digit(b, lo) - borrow
         IN <<<<(x + Limb) % Limb>>, IF x < 0 THEN 1 ELSE 0>>
    ELSE LET mid == (lo + hi) \div 2
             low == BSubB(a, b, lo, mid, borrow)
             high == BSubB(a, b, mid + 1, hi, low[2])
         IN <<low[1] \o high[1], high[2]>>

\* a - b for a >= b
BSub(a, b) == BTrim(BSubB(a, b, 1, Len(a), 0)[1])

\* -1, 0, 1 as a < b, a = b, a > b (a and b without leading zeros)
BCmp(a, b) ==
    LET differ == {i \in 1 .. Len(a) : Digit(a, i) # Digit(b, i)}
        top == CHOOSE i \in differ : \A j \in differ : j <= i
    IN IF Len(a) # Len(b) THEN (IF Len(a) < Len(b) THEN -1 ELSE 1)
       ELSE IF differ = {} THEN 0
       ELSE IF a[top] < b[top] THEN -1 ELSE 1

\* digits lo..hi of a * k + carry, for a digit k, and the carry out
RECURSIVE BMulSmallC(_, _, _, _, _)
BMulSmallC(a, k, lo, hi, carry) ==
    IF lo > hi THEN <<<<>>, carry>>
    ELSE IF lo = hi
    THEN LET x == a[lo] * k + carry
         IN <<<<x % Limb>>, x \div Limb>>
    ELSE LET mid == (lo + hi) \div 2
             low == BMulSmallC(a, k, lo, mid, carry)
             high == BMulSmallC(a, k, mid + 1, hi, low[2])
         IN <<low[1] \o high[1], high[2]>>

BMulSmall(a, k) ==
    LET r == BMulSmallC(a, k, 1, Len(a), 0)
    IN IF r[2] = 0 THEN r[1] ELSE Append(r[1], r[2])

\* a shifted up by k digits
BShift(a, k) == [i \in 1 .. k |-> 0] \o a

\* (digits lo..hi of a) * b
RECURSIVE BMulR(_, _, _, _)
BMulR(a, b, lo, hi) ==
    IF lo > hi THEN <<>>
    ELSE IF lo = hi THEN BMulSmall(b, a[lo])
    ELSE LET mid == (lo + hi) \div 2
         IN BAdd(BMulR(a, b, lo, mid), BShift(BMulR(a, b, mid + 1, hi), mid + 1 - lo))

BMul(a, b) == BTrim(BMulR(a, b, 1, Len(a)))

\* the finite number <<n, d>> as an arbitrary-precision rational
Wide(x) == [s |-> Sgn(x[1]), n |-> Big(Abs(x[1])), d |-> Big(x[2])]

WNeg(a) == [a EXCEPT !.s = -a.s]

WAdd(a, b) ==
    LET x == BMul(a.n, b.d)
        y == BMul(b.n, a.d)
        d == BMul(a.d, b.d)
        c == BCmp(x, y)
    IN IF a.s = 0 THEN b
       ELSE IF b.s = 0 THEN a
       ELSE IF a.s = b.s THEN [s |-> a.s, n |-> BAdd(x, y), d |-> d]
       ELSE IF c = 0 THEN [s |-> 0, n |-> <<>>, d |-> d]
       ELSE IF c > 0 THEN [s |-> a.s, n |-> BSub(x, y), d |-> d]
       ELSE [s |-> b.s, n |-> BSub(y, x), d |-> d]

WSub(a, b) == WAdd(a, WNeg(b))

WMul(a, b) == [s |-> a.s * b.s, n |-> BMul(a.n, b.n), d |-> BMul(a.d, b.d)]

\* a / b for b # 0
WDiv(a, b) == [s |-> a.s * b.s, n |-> BMul(a.n, b.d), d |-> BMul(a.d, b.n)]

\* b^e for e >= 0, by squaring
RECURSIVE WPow(_, _)
WPow(b, e) ==
    IF e = 0 THEN Wide(One)
    ELSE LET h == WPow(b, e \div 2)
         IN IF e % 2 = 0 THEN WMul(h, h) ELSE WMul(b, WMul(h, h))

\* a < b
WLess(a, b) == WSub(a, b).s = -1

-----------------------------------------------------------------------------
(* The five functions. *)

\* FV with the end-of-period formula used for both timings
FV_ignoresType(fv_rate, fv_periods, fv_payments, present_value, type) ==
    LET fv_present_value == OrZero(present_value)
        term == MathPow(QAdd(One, fv_rate), fv_periods)
    IN IF StrictEq(fv_rate, Zero)
       THEN QAdd(fv_present_value, QMul(fv_payments, Q(fv_periods)))
       ELSE QAdd(QMul(fv_present_value, term),
                 QDiv(QMul(fv_payments, QSub(term, One)), fv_rate))

FV(fv_rate, fv_periods, fv_payments, present_value, type) ==
    LET fv_present_value == OrZero(present_value)
        fv_type == OrZero(type)
        term == MathPow(QAdd(One, fv_rate), fv_periods)
    IN IF StrictEq(fv_rate, Zero)
       THEN QAdd(fv_present_value, QMul(fv_payments, Q(fv_periods)))
       ELSE IF StrictEq(One, fv_type)
       THEN QAdd(QMul(fv_present_value, term),
                 QDiv(QMul(QMul(fv_payments, QAdd(One, fv_rate)), QSub(term, One)), fv_rate))
       ELSE QAdd(QMul(fv_present_value, term),
                 QDiv(QMul(fv_payments, QSub(term, One)), fv_rate))

\* the Math.pow calls one FV call makes
FVPows(fv_rate) == IF StrictEq(fv_rate, Zero) THEN 0 ELSE 1

PV(pv_rate, pv_periods, pv_payment, future, type) ==
    LET pv_future == OrZero(future)
        fv_type == OrZero(type)
        pow == MathPow(QAdd(One, pv_rate), pv_periods)
    IN IF StrictEq(pv_rate, Zero)
       THEN QSub(QMul(QNeg(pv_payment), Q(pv_periods)), pv_future)
       ELSE QMul(QDiv(QSub(QMul(QMul(QDiv(QSub(One, pow), pv_rate), pv_payment),
                                QAdd(One, QMul(pv_rate, fv_type))),
                           pv_future),
                      pow),
                 Q(-1))

\* the Math.pow calls one PV call makes
PVPows(pv_rate) == IF StrictEq(pv_rate, Zero) THEN 0 ELSE 2

\* PMT without the zero-rate branch
PMT_noZeroRate(pmt_rate, pmt_periods, pmt_present, future, type) ==
    LET pmt_future == OrZero(future)
        pmt_type == OrZero(type)
        pmt_term == MathPow(QAdd(One, pmt_rate), pmt_periods)
        annuity == QAdd(QDiv(QMul(pmt_future, pmt_rate), QSub(pmt_term, One)),
                        QDiv(QMul(pmt_present, pmt_rate), QSub(One, QDiv(One, pmt_term))))
    IN IF StrictEq(pmt_type, One)
       THEN QDiv(annuity, QAdd(One, pmt_rate))
       ELSE annuity

PMT(pmt_rate, pmt_periods, pmt_present, future, type) ==
    LET pmt_future == OrZero(future)
        pmt_type == OrZero(type)
        pmt_term == MathPow(QAdd(One, pmt_rate), pmt_periods)
        annuity == QAdd(QDiv(QMul(pmt_future, pmt_rate), QSub(pmt_term, One)),
                        QDiv(QMul(pmt_present, pmt_rate), QSub(One, QDiv(One, pmt_term))))
    IN IF StrictEq(pmt_rate, Zero)
       THEN QDiv(QAdd(pmt_present, pmt_future), Q(pmt_periods))
       ELSE IF StrictEq(pmt_type, One)
       THEN QDiv(annuity, QAdd(One, pmt_rate))
       ELSE annuity

\* PMT over arbitrary-precision rationals, for finite arguments with
\* (1 + pmt_rate)^pmt_periods # 1 (future || 0 and type || 0 are then the arguments)
PMT_wide(pmt_rate, pmt_periods, pmt_present, pmt_future, pmt_type) ==
    LET pmt_term == WPow(WAdd(Wide(One), pmt_rate), pmt_periods)
        annuity == WAdd(WDiv(WMul(pmt_future, pmt_rate), WSub(pmt_term, Wide(One))),
                        WDiv(WMul(pmt_present, pmt_rate),
                             WSub(Wide(One), WDiv(Wide(One), pmt_term))))
    IN IF pmt_rate.s = 0
       THEN WDiv(WAdd(pmt_present, pmt_future), Wide(Q(pmt_periods)))
       ELSE IF pmt_type = Wide(One)
       THEN WDiv(annuity, WAdd(Wide(One), pmt_rate))
       ELSE annuity

\* the Math.pow calls one PMT call makes
PMTPows(pmt_rate) == IF StrictEq(pmt_rate, Zero) THEN 0 ELSE 1

\* IPMT whose first period charges interest on the present value for both timings
IPMT_firstPeriodCharged(ipmt_rate, ipmt_period, ipmt_periods, ipmt_present, future, type) ==
    LET ipmt_future == OrZero(future)
        ipmt_type == OrZero(type)
        impt_payment == PMT(ipmt_rate, ipmt_periods, ipmt_present, ipmt_future, ipmt_type)
        impt_interest ==
            IF ipmt_period = 1
            THEN QNeg(ipmt_present)
            ELSE IF StrictEq(ipmt_type, One)
            THEN QSub(FV(ipmt_rate, ipmt_period - 2, impt_payment, ipmt_present, One),
                      impt_payment)
            ELSE FV(ipmt_rate, ipmt_period - 1, impt_payment, ipmt_present, Zero)
    IN QMul(impt_interest, ipmt_rate)

IPMT(ipmt_rate, ipmt_period, ipmt_periods, ipmt_present, future, type) ==
    LET ipmt_future == OrZero(future)
        ipmt_type == OrZero(type)
        impt_payment == PMT(ipmt_rate, ipmt_periods, ipmt_present, ipmt_future, ipmt_type)
        impt_interest ==
            IF ipmt_period = 1
            THEN (IF StrictEq(ipmt_type, One) THEN Zero ELSE QNeg(ipmt_present))
            ELSE IF StrictEq(ipmt_type, One)
            THEN QSub(FV(ipmt_rate, ipmt_period - 2, impt_payment, ipmt_present, One),
                      impt_payment)
            ELSE FV(ipmt_rate, ipmt_period - 1, impt_payment, ipmt_present, Zero)
    IN QMul(impt_interest, ipmt_rate)

\* the Math.pow calls one IPMT call makes
IPMTPows(ipmt_rate, ipmt_period) ==
    PMTPows(ipmt_rate) + (IF ipmt_period = 1 THEN 0 ELSE FVPows(ipmt_rate))

\* PPMT adding the interest portion instead of subtracting it
PPMT_plusInterest(ppmt_rate, ppmt_period, ppmt_periods, ppmt_present, future, type) ==
    LET ppmt_future == OrZero(future)
        ppmt_type == OrZero(type)
    IN QAdd(PMT(ppmt_rate, ppmt_periods, ppmt_present, ppmt_future, ppmt_type),
            IPMT(ppmt_rate, ppmt_period, ppmt_periods, ppmt_present, ppmt_future, ppmt_type))

PPMT(ppmt_rate, ppmt_period, ppmt_periods, ppmt_present, future, type) ==
    LET ppmt_future == OrZero(future)
        ppmt_type == OrZero(type)
    IN QSub(PMT(ppmt_rate, ppmt_periods, ppmt_present, ppmt_future, ppmt_type),
            IPMT(ppmt_rate, ppmt_period, ppmt_periods, ppmt_present, ppmt_future, ppmt_type))

\* the Math.pow calls one PPMT call makes
PPMTPows(ppmt_rate, ppmt_period) == PMTPows(ppmt_rate) + IPMTPows(ppmt_rate, ppmt_period)

-----------------------------------------------------------------------------
(* The calls explored. *)

Rates == { Norm(n, 2) : n \in -RateSteps .. RateSteps }

Amounts == { Q(n) : n \in -MaxAmount .. MaxAmount }

\* an optional amount: a number, or omitted
OptAmounts == Amounts \cup {Undefined}

\* the timing flag: omitted, 0, 1, or the unvalidated 2
Types == {Undefined, Zero, One, Two}

NPeriods == 0 .. MaxPeriods

PeriodIndex == 1 .. MaxPeriods

\* a call's arguments; a parameter the function does not have is undefined / 0
Args(rate, period, periods, payment, present, future, type) ==
    [rate |-> rate, period |-> period, periods |-> periods, payment |-> payment,
     present |-> present, future |-> future, type |-> type]

FVCalls ==
    { Args(r, 0, n, p, v, Undefined, t) :
        r \in Rates, n \in NPeriods, p \in OptAmounts, v \in OptAmounts, t \in Types }

PVCalls ==
    { Args(r, 0, n, p, Undefined, f, t) :
        r \in Rates, n \in NPeriods, p \in Amounts, f \in OptAmounts, t \in Types }

PMTCalls ==
    { Args(r, 0, n, Undefined, v, f, t) :
        r \in Rates, n \in NPeriods, v \in Amounts, f \in OptAmounts, t \in Types }

PerCalls ==
    { Args(r, k, n, Undefined, v, f, t) :
        r \in Rates, k \in PeriodIndex, n \in NPeriods, v \in Amounts,
        f \in OptAmounts, t \in Types }

\* the documented scenario PMT(0.01, 36, 10000, 0, 0)
Scenario == Args(<<1, 100>>, 0, 36, Undefined, Q(10000), Zero, Zero)

Init ==
    /\ pc = "call"
    /\ result = Undefined
    /\ pows = 0
    /\ \/ fn = "FV" /\ args \in FVCalls
       \/ fn = "PV" /\ args \in PVCalls
       \/ fn = "PMT" /\ args \in PMTCalls \cup {Scenario}
       \/ fn \in {"IPMT", "PPMT"} /\ args \in PerCalls

CallFV ==
    /\ pc = "call" /\ fn = "FV"
    /\ result' = FV(args.rate, args.periods, args.payment, args.present, args.type)
    /\ pows' = FVPows(args.rate)
    /\ pc' = "done"
    /\ UNCHANGED <<fn, args>>

CallPV ==
    /\ pc = "call" /\ fn = "PV"
    /\ result' = PV(args.rate, args.periods, args.payment, args.future, args.type)
    /\ pows' = PVPows(args.rate)
    /\ pc' = "done"
    /\ UNCHANGED <<fn, args>>

CallPMT ==
    /\ pc = "call" /\ fn = "PMT" /\ args # Scenario
    /\ result' = PMT(args.rate, args.periods, args.present, args.future, args.type)
    /\ pows' = PMTPows(args.rate)
    /\ pc' = "done"
    /\ UNCHANGED <<fn, args>>

\* the scenario's call of PMT: the result is an arbitrary-precision rational
CallPMTWide ==
    /\ pc = "call" /\ fn = "PMT" /\ args = Scenario
    /\ result' = PMT_wide(Wide(args.rate), args.periods, Wide(args.present),
                           Wide(args.future), Wide(args.type))
    /\ pows' = PMTPows(args.rate)
    /\ pc' = "done"
    /\ UNCHANGED <<fn, args>>

CallIPMT ==
    /\ pc = "call" /\ fn = "IPMT"
    /\ result' = IPMT(args.rate, args.period, args.periods, args.present, args.future,
                      args.type)
    /\ pows' = IPMTPows(args.rate, args.period)
    /\ pc' = "done"
    /\ UNCHANGED <<fn, args>>

CallPPMT ==
    /\ pc = "call" /\ fn = "PPMT"
    /\ result' = PPMT(args.rate, args.period, args.periods, args.present, args.future,
                      args.type)
    /\ pows' = PPMTPows(args.rate, args.period)
    /\ pc' = "done"
    /\ UNCHANGED <<fn, args>>

Next == CallFV \/ CallPV \/ CallPMT \/ CallPMTWide \/ CallIPMT \/ CallPPMT

Spec == Init /\ [][Next]_vars

\* the call of function f, on arguments of the grid, has returned
Returned(f) == pc = "done" /\ fn = f /\ args # Scenario

\* the scenario's call has returned
ScenarioReturned == pc = "done" /\ fn = "PMT" /\ args = Scenario

-----------------------------------------------------------------------------
(* Shorthands for the claims. *)

IsNaN(x) == ToNumber(x) = NaN

IsFinite(x) == x[2] > 0

\* x == y on numbers
JsEq(x, y) == StrictEq(ToNumber(x), ToNumber(y))

\* x < y on numbers (false when either is NaN)
QLess(x, y) ==
    LET a == ToNumber(x)
        b == ToNumber(y)
    IN /\ a # NaN /\ b # NaN /\ a # b
       /\ IF a[2] = 0 THEN a = NegInf
          ELSE IF b[2] = 0 THEN b = PosInf
          ELSE a[1] * b[2] < b[1] * a[2]

\* the arguments are numbers (none omitted) and the timing flag is 0 or 1
PlainTiming == args.type \in {Zero, One}

\* the constant payment of the returned call's schedule
Payment == PMT(args.rate, args.periods, args.present, args.future, args.type)

\* the interest and principal portions of period p of the returned call's schedule
Interest(p) == IPMT(args.rate, p, args.periods, args.present, args.future, args.type)

Principal(p) == PPMT(args.rate, p, args.periods, args.present, args.future, args.type)

RECURSIVE SumPrincipal(_)
SumPrincipal(p) == IF p = 0 THEN Zero ELSE QAdd(SumPrincipal(p - 1), Principal(p))

\* the balance after k steps of b := b * (1 + rate) + payment (type 0) or
\* b := (b + payment) * (1 + rate) (type 1)
RECURSIVE Simulate(_, _, _, _, _)
Simulate(b, rate, payment, k, type) ==
    IF k = 0 THEN b
    ELSE Simulate(IF type = One
                  THEN QMul(QAdd(b, payment), QAdd(One, rate))
                  ELSE QAdd(QMul(b, QAdd(One, rate)), payment),
                  rate, payment, k - 1, type)

-----------------------------------------------------------------------------
(* C1 *)

\* C1 (as claimed): for every rate # 0, periods > 0, payment, present value and
\* type in {0, 1}, PV(rate, periods, payment, FV(rate, periods, payment, pv, type),
\* type) equals -pv.
C1_FVPVInverse ==
    (/\ Returned("FV") /\ args.rate # Zero /\ args.periods > 0
     /\ args.payment \in Amounts /\ args.present \in Amounts /\ PlainTiming)
    => JsEq(PV(args.rate, args.periods, args.payment, result, args.type),
            QNeg(args.present))

-----------------------------------------------------------------------------
(* C2 *)

\* C2 (as claimed): when every result is finite, the principal portions of
\* periods 1..periods sum to present_value + future_value, up to sign.
C2_AmortizationCloses ==
    (/\ Returned("PPMT") /\ args.periods >= 1 /\ args.period = args.periods
     /\ args.future \in Amounts /\ PlainTiming
     /\ \A p \in 1 .. args.periods : IsFinite(Principal(p)))
    => LET total == QAdd(args.present, args.future)
       IN \/ JsEq(SumPrincipal(args.periods - 1), QSub(total, result))
          \/ JsEq(SumPrincipal(args.periods - 1), QSub(QNeg(total), result))

-----------------------------------------------------------------------------
(* C3 *)

\* the PPMT call the decomposition identity is about
C3_Case ==
    /\ Returned("PPMT") /\ args.period <= args.periods
    /\ args.future \in Amounts /\ PlainTiming

\* C3 (as claimed): for every rate, periods, present value, future value, type in
\* {0, 1} and period in [1, periods], PPMT + IPMT equals PMT.
C3_DecompositionAlways ==
    C3_Case => JsEq(QAdd(result, Interest(args.period)), Payment)

\* C3 (amended): PPMT + IPMT equals PMT for every period in [1, periods] whenever
\* PMT is a number (not NaN) and IPMT is finite.
C3_Decomposition ==
    (C3_Case /\ ~IsNaN(Payment) /\ IsFinite(Interest(args.period)))
    => JsEq(QAdd(result, Interest(args.period)), Payment)

\* a PPMT call of period 2 of 3 with a finite non-zero interest portion
C3_Witness ==
    /\ C3_Case /\ args.period = 2 /\ args.periods = 3 /\ args.type = One
    /\ IsFinite(Payment) /\ IsFinite(Interest(2)) /\ Interest(2) # Zero
    /\ IsFinite(result) /\ result # Payment

-----------------------------------------------------------------------------
(* C4 *)

\* C4 (as claimed): PMT(0.01, 36, 10000, 0, 0) is approximately -332.143: a
\* negative value, within 0.001 of -332.143.
C4_ScenarioPayment ==
    ScenarioReturned
    => /\ WLess(Wide(<<-332144, 1000>>), result)
       /\ WLess(result, Wide(<<-332142, 1000>>))

\* what the code returns there: a positive value, within 0.001 of +332.143
C4_ReturnedValue ==
    ScenarioReturned
    => /\ WLess(Wide(<<332142, 1000>>), result)
       /\ WLess(result, Wide(<<332144, 1000>>))

-----------------------------------------------------------------------------
(* C5 *)

\* C5: at rate 0, FV returns present_value + payment * periods, PV returns
\* -payment * periods - future_value and PMT returns (present_value +
\* future_value) / periods, whatever the type, and no Math.pow call is made.
C5_ZeroRate ==
    /\ (Returned("FV") /\ args.rate = Zero /\ args.payment \in Amounts
        /\ args.present \in Amounts)
       => /\ result = QAdd(args.present, QMul(args.payment, Q(args.periods)))
          /\ pows = 0
    /\ (Returned("PV") /\ args.rate = Zero /\ args.future \in Amounts)
       => /\ result = QSub(QMul(QNeg(args.payment), Q(args.periods)), args.future)
          /\ pows = 0
    /\ (Returned("PMT") /\ args.rate = Zero /\ args.future \in Amounts)
       => /\ result = QDiv(QAdd(args.present, args.future), Q(args.periods))
          /\ pows = 0

\* a zero-rate PMT call with start-of-period timing: (2 + 1) / 2
C5_Witness ==
    /\ Returned("PMT") /\ args.rate = Zero /\ args.type = One /\ args.periods = 2
    /\ args.present = Q(2) /\ args.future = Q(1) /\ result = <<3, 2>> /\ pows = 0

-----------------------------------------------------------------------------
(* C6 *)

\* C6: IPMT of period 1 with type 1 is 0, for every rate, periods, present value
\* and future value.
C6_FirstPeriodDue ==
    (Returned("IPMT") /\ args.period = 1 /\ args.type = One) => JsEq(result, Zero)

\* such a call on a schedule whose payment and end-of-period interest are not 0
C6_Witness ==
    /\ Returned("IPMT") /\ args.period = 1 /\ args.type = One
    /\ args.rate = <<1, 2>> /\ args.periods = 3 /\ args.present = Q(2)
    /\ IsFinite(Payment) /\ Payment # Zero /\ result = Zero
    /\ IPMT(args.rate, 1, args.periods, args.present, args.future, Zero) # Zero

-----------------------------------------------------------------------------
(* C7 *)

\* C7 (as claimed): FV with the payment omitted returns what FV returns with a
\* payment of 0, a number and not NaN.
C7_PaymentDefault ==
    (Returned("FV") /\ args.payment = Undefined)
    => /\ ~IsNaN(result)
       /\ result = FV(args.rate, args.periods, Zero, args.present, args.type)

-----------------------------------------------------------------------------
(* C8 *)

\* C8: a call with a trailing optional argument omitted (present_value or type of
\* FV; future_value or type of PV, PMT, IPMT, PPMT) returns what the call with
\* that argument 0 returns.
C8_OmittedIsZero ==
    /\ Returned("FV")
       => /\ args.present = Undefined
             => result = FV(args.rate, args.periods, args.payment, Zero, args.type)
          /\ args.type = Undefined
             => result = FV(args.rate, args.periods, args.payment, args.present, Zero)
    /\ Returned("PV")
       => /\ args.future = Undefined
             => result = PV(args.rate, args.periods, args.payment, Zero, args.type)
          /\ args.type = Undefined
             => result = PV(args.rate, args.periods, args.payment, args.future, Zero)
    /\ Returned("PMT")
       => /\ args.future = Undefined
             => result = PMT(args.rate, args.periods, args.present, Zero, args.type)
          /\ args.type = Undefined
             => result = PMT(args.rate, args.periods, args.present, args.future, Zero)
    /\ Returned("IPMT")
       => /\ args.future = Undefined
             => result = IPMT(args.rate, args.period, args.periods, args.present, Zero,
                              args.type)
          /\ args.type = Undefined
             => result = IPMT(args.rate, args.period, args.periods, args.present,
                              args.future, Zero)
    /\ Returned("PPMT")
       => /\ args.future = Undefined
             => result = PPMT(args.rate, args.period, args.periods, args.present, Zero,
                              args.type)
          /\ args.type = Undefined
             => result = PPMT(args.rate, args.period, args.periods, args.present,
                              args.future, Zero)

\* an FV call with present value and type omitted (rate 1/2, 2 periods, payment 2)
\* whose result, 5, is not the one start-of-period timing would give
C8_Witness ==
    /\ Returned("FV") /\ args.present = Undefined /\ args.type = Undefined
    /\ args.rate = <<1, 2>> /\ args.periods = 2 /\ args.payment = Q(2)
    /\ result = Q(5)
    /\ result # FV(args.rate, args.periods, args.payment, Zero, One)

-----------------------------------------------------------------------------
(* C9 *)

\* C9 (as claimed): for rate > 0, present value > 0, future value 0, type 0 and
\* periods >= 2, IPMT has the same sign in every period of [1, periods], the
\* sign of PMT.
C9_InterestSign ==
    (/\ Returned("IPMT") /\ QLess(Zero, args.rate) /\ QLess(Zero, args.present)
     /\ args.future = Zero /\ args.type = Zero
     /\ args.periods >= 2 /\ args.period <= args.periods)
    => /\ Sgn(result[1]) = Sgn(Payment[1])
       /\ \A p \in 1 .. args.periods : Sgn(Interest(p)[1]) = Sgn(result[1])

-----------------------------------------------------------------------------
(* C10 *)

\* C10: for rate # 0, k >= 0, payment and present value, FV(rate, k, payment,
\* present_value, type) is the balance after k steps of the type's recurrence
\* from present_value; so the interest base of IPMT for a period > 1 is that
\* simulated balance under the payment PMT (less the payment, for type 1), the
\* payment being a finite number as in the first part.
C10_ClosedFormIsSimulation ==
    /\ (/\ Returned("FV") /\ args.rate # Zero /\ args.payment \in Amounts
        /\ args.present \in Amounts /\ PlainTiming)
       => result = Simulate(args.present, args.rate, args.payment, args.periods,
                            args.type)
    /\ (/\ Returned("IPMT") /\ args.rate # Zero /\ args.period > 1
        /\ args.future \in Amounts /\ PlainTiming /\ IsFinite(Payment))
       => result =
            QMul(IF args.type = One
                 THEN QSub(Simulate(args.present, args.rate, Payment, args.period - 2,
                                    One), Payment)
                 ELSE Simulate(args.present, args.rate, Payment, args.period - 1, Zero),
                 args.rate)

\* an FV call over 3 periods with start-of-period payments and a non-zero balance
C10_Witness ==
    /\ Returned("FV") /\ args.rate = <<1, 2>> /\ args.periods = 3
    /\ args.payment = Q(-1) /\ args.present = Q(2) /\ args.type = One
    /\ result = Simulate(Q(2), <<1, 2>>, Q(-1), 3, One)
    /\ result # Simulate(Q(2), <<1, 2>>, Q(-1), 3, Zero)

====
